---- MODULE Spec2Model ----
(***************************************************************************)
(* Session Matcher by Appointment ID (src/unverify_checker.py).            *)
(*                                                                         *)
(* One run of the script: two uploads are read, load errors reported,      *)
(* required columns validated, the key column normalised to text, the two  *)
(* tables inner-joined, the join filtered on Completed = "yes", and the    *)
(* filtered table offered as a download when it is not empty.              *)
(*                                                                         *)
(* Text is a sequence of one-character strings, so that lower(), strip(),  *)
(* endswith() and str() of a number are computed and not assumed.  A       *)
(* column name is a sequence of name parts, so that appending a suffix is  *)
(* concatenation: "X" + "_aloha" and an input column called "X_aloha" are  *)
(* the same name <<"X", "_aloha">>.                                        *)
(***************************************************************************)
EXTENDS Integers, Sequences, FiniteSets, TLC

VARIABLES
    file1, file2,            \* the two uploads (None: nothing uploaded)
    df1, err1, df2, err2,    \* what read_table returned for each
    err_cols1, err_cols2,    \* what validate_columns returned for each
    merged,                  \* the joined table
    matched_completed_yes,   \* the filtered table
    ui,                      \* the st.error / st.info / st.write / download calls, in order
    pc                       \* position of the script

vars == <<file1, file2, df1, err1, df2, err2, err_cols1, err_cols2,
          merged, matched_completed_yes, ui, pc>>

None == [t |-> "None"]

(***************************************************************************)
(* Bounds of the input space.                                              *)
(***************************************************************************)
MaxRows == 2

(***************************************************************************)
(* Text.                                                                   *)
(***************************************************************************)
Range(s) == {s[i] : i \in 1..Len(s)}

IsUnique(s) == \A i, j \in 1..Len(s) : s[i] = s[j] => i = j

Whitespace == {" ", "\t"}

Lower(ch) ==
    CASE ch = "A" -> "a" [] ch = "C" -> "c" [] ch = "E" -> "e"
      [] ch = "L" -> "l" [] ch = "N" -> "n" [] ch = "O" -> "o"
      [] ch = "S" -> "s" [] ch = "V" -> "v" [] ch = "X" -> "x"
      [] ch = "Y" -> "y" [] OTHER -> ch

LowerStr(s) == [i \in 1..Len(s) |-> Lower(s[i])]

RECURSIVE LStrip(_)
LStrip(s) == IF s # <<>> /\ Head(s) \in Whitespace THEN LStrip(Tail(s)) ELSE s

RECURSIVE RStrip(_)
RStrip(s) ==
    IF s # <<>> /\ s[Len(s)] \in Whitespace
    THEN RStrip(SubSeq(s, 1, Len(s) - 1))
    ELSE s

\* fault variant: .str.strip() left out
StripBug(s) == s

Strip(s) == RStrip(LStrip(s))

EndsWith(s, suffix) ==
    /\ Len(s) >= Len(suffix)
    /\ SubSeq(s, Len(s) - Len(suffix) + 1, Len(s)) = suffix

DigitChar(d) ==
    CASE d = 0 -> "0" [] d = 1 -> "1" [] d = 2 -> "2" [] d = 3 -> "3"
      [] d = 4 -> "4" [] d = 5 -> "5" [] d = 6 -> "6" [] d = 7 -> "7"
      [] d = 8 -> "8" [] OTHER -> "9"

RECURSIVE Digits(_)
Digits(n) ==
    IF n < 10 THEN <<DigitChar(n)>>
    ELSE Append(Digits(n \div 10), DigitChar(n % 10))

(***************************************************************************)
(* Cells.  A cell is what pandas holds after parsing: an int64, a float64  *)
(* (here always with an integral value n), NaN for a blank, or a str.      *)
(***************************************************************************)
IntCell(n) == [t |-> "int", n |-> n, s |-> <<>>]
FloatCell(n) == [t |-> "float", n |-> n, s |-> <<>>]
NaN == [t |-> "nan", n |-> 0, s |-> <<>>]
StrCell(s) == [t |-> "str", n |-> 0, s |-> s]

\* str(x) of one cell, as Series.astype(str) applies it: 123 -> "123",
\* 123.0 -> "123.0", NaN -> "nan", a str unchanged.  (pandas 3 keeps a blank
\* of an object column blank instead; blanks still join with blanks and
\* still are not "yes", so the runs are the same.)
Str(c) ==
    CASE c.t = "int" -> Digits(c.n)
      [] c.t = "float" -> Digits(c.n) \o <<".", "0">>
      [] c.t = "nan" -> <<"n", "a", "n">>
      [] OTHER -> c.s

AsTypeStr(c) == StrCell(Str(c))

(***************************************************************************)
(* Tables: [cols |-> sequence of names, rows |-> sequence of rows], a row  *)
(* a sequence of cells aligned with cols.                                  *)
(***************************************************************************)
KeyCol == <<"Appointment ID">>
StatusCol == <<"Completed">>
SuffixAloha == <<"_aloha">>
SuffixUnbilled == <<"_unbilled">>

HasCol(df, c) == \E i \in 1..Len(df.cols) : df.cols[i] = c

ColIdx(df, c) == CHOOSE i \in 1..Len(df.cols) : df.cols[i] = c

RemoveAt(s, i) == SubSeq(s, 1, i - 1) \o SubSeq(s, i + 1, Len(s))

(***************************************************************************)
(* Uploaded files.  A file is [name, format, table]: its name, what its    *)
(* bytes really are ("csv", "excel" or "garbage") and the table a parser   *)
(* of that format finds in them.                                           *)
(***************************************************************************)
DotCsv == <<".", "c", "s", "v">>
DotXlsx == <<".", "x", "l", "s", "x">>
DotXls == <<".", "x", "l", "s">>

\* pd.read_csv(file): a table, or an exception.  No columns at all (an empty
\* file) raises EmptyDataError; bytes that are not delimited text raise too.
pd_read_csv(file) ==
    IF file.format = "csv" /\ Len(file.table.cols) > 0
    THEN [ok |-> TRUE, df |-> file.table, cause |-> ""]
    ELSE [ok |-> FALSE, df |-> None,
          cause |-> IF file.format = "csv" THEN "EmptyDataError" ELSE "ParserError"]

\* pd.read_excel(file): the first sheet (an empty sheet is a 0 x 0 table), or
\* an exception when the bytes are no workbook.
pd_read_excel(file) ==
    IF file.format = "excel"
    THEN [ok |-> TRUE, df |-> file.table, cause |-> ""]
    ELSE [ok |-> FALSE, df |-> None, cause |-> "BadZipFile"]

Error(text, cause) == [text |-> text, cause |-> cause]

\* a message on the page: the file it is about, its text, the exception it
\* quotes and the column names it lists
Msg(label, text, cause, missing) ==
    [label |-> label, text |-> text, cause |-> cause, missing |-> missing]

\* fault variant: only a table without columns counts as empty
IsEmptyColumnsOnly(df) == Len(df.cols) = 0

\* DataFrame.empty: some axis has length 0
df_empty(df) == Len(df.cols) = 0 \/ Len(df.rows) = 0

read_table(file) ==
    IF file = None THEN [df |-> None, err |-> Error("No file uploaded", "")]
    ELSE
      LET filename == LowerStr(file.name)
          parsed ==
            IF EndsWith(filename, DotCsv) THEN pd_read_csv(file)
            ELSE IF EndsWith(filename, DotXlsx) \/ EndsWith(filename, DotXls)
                 THEN pd_read_excel(file)
                 ELSE [ok |-> FALSE, df |-> None, cause |-> "unsupported"]
      IN  IF parsed.cause = "unsupported"
          THEN [df |-> None,
                err |-> Error("Unsupported file type. Please upload CSV or Excel.", "")]
          ELSE IF ~parsed.ok
          THEN [df |-> None, err |-> Error("Error reading file", parsed.cause)]
          ELSE IF df_empty(parsed.df)
          THEN [df |-> None, err |-> Error("File appears to be empty.", "")]
          ELSE [df |-> parsed.df, err |-> None]

(***************************************************************************)
(* validate_columns                                                        *)
(***************************************************************************)
\* fault variant: validation stops at the first absent name
RECURSIVE FirstAbsent(_, _)
FirstAbsent(df, cs) ==
    IF cs = <<>> THEN <<>>
    ELSE IF ~HasCol(df, Head(cs)) THEN <<Head(cs)>>
    ELSE FirstAbsent(df, Tail(cs))

MissingFirstOnly(df, required_cols) == FirstAbsent(df, required_cols)

\* missing = [c for c in required_cols if c not in df.columns]
Missing(df, required_cols) == SelectSeq(required_cols, LAMBDA c : ~HasCol(df, c))

validate_columns(df, required_cols, file_label) ==
    LET missing == Missing(df, required_cols)
    IN  IF missing # <<>>
        THEN Msg(file_label, "is missing required column(s)", "", missing)
        ELSE None

Label1 == "File 1 (Aloha)"
Label2 == "File 2 (Unbilled)"
Required1 == <<KeyCol, StatusCol>>
Required2 == <<KeyCol>>

(***************************************************************************)
(* The join: pd.merge(df1, df2, on="Appointment ID", how="inner",          *)
(* suffixes=("_aloha", "_unbilled")).                                      *)
(***************************************************************************)
\* the non-key names present on both sides, which pandas renames
ToRename(l, r) == (Range(l.cols) \cap Range(r.cols)) \ {KeyCol}

LeftLabels(l, r) ==
    [i \in 1..Len(l.cols) |->
        IF l.cols[i] \in ToRename(l, r) THEN l.cols[i] \o SuffixAloha ELSE l.cols[i]]

\* the right side's labels, its key column dropped
RightLabels(l, r) ==
    LET rc == RemoveAt(r.cols, ColIdx(r, KeyCol))
    IN  [i \in 1..Len(rc) |->
            IF rc[i] \in ToRename(l, r) THEN rc[i] \o SuffixUnbilled ELSE rc[i]]

\* pandas checks each side's renamed labels for duplicates on their own
\* (never one side against the other): a duplicate raises MergeError from
\* pandas 2.0 on, and is let through with a warning before.
SuffixClash(l, r) == ~IsUnique(LeftLabels(l, r)) \/ ~IsUnique(RightLabels(l, r))

AllPairs(m, n) == [p \in 1..(m * n) |-> <<((p - 1) \div n) + 1, ((p - 1) % n) + 1>>]

\* fault variant: a lookup join, each left row paired with its first match only
RECURSIVE FirstMatchOnly(_, _, _)
FirstMatchOnly(l, r, i) ==
    IF i > Len(l.rows) THEN <<>>
    ELSE LET k1 == ColIdx(l, KeyCol)
             k2 == ColIdx(r, KeyCol)
             js == {j \in 1..Len(r.rows) : l.rows[i][k1] = r.rows[j][k2]}
         IN  (IF js = {} THEN <<>>
              ELSE << <<i, CHOOSE j \in js : \A x \in js : j <= x>> >>)
             \o FirstMatchOnly(l, r, i + 1)

MatchingPairsLookup(l, r) == FirstMatchOnly(l, r, 1)

\* how="inner": every (left row, right row) pair with equal keys.  The pairs
\* are listed left-row-major; pandas fixes the order only up to its version,
\* and nothing below depends on more than the pairs themselves and on the
\* filter keeping the order the join produced.
MatchingPairs(l, r) ==
    LET k1 == ColIdx(l, KeyCol)
        k2 == ColIdx(r, KeyCol)
    IN  SelectSeq(AllPairs(Len(l.rows), Len(r.rows)),
                  LAMBDA p : l.rows[p[1]][k1] = r.rows[p[2]][k2])

pd_merge(l, r) ==
    LET k2 == ColIdx(r, KeyCol)
        ps == MatchingPairs(l, r)
    IN  [cols |-> LeftLabels(l, r) \o RightLabels(l, r),
         rows |-> [q \in 1..Len(ps) |->
                     l.rows[ps[q][1]] \o RemoveAt(r.rows[ps[q][2]], k2)]]

\* df[col] = df[col].astype(str)
NormalizeKey(df) ==
    LET k == ColIdx(df, KeyCol)
    IN  [df EXCEPT !.rows =
            [i \in 1..Len(df.rows) |-> [df.rows[i] EXCEPT ![k] = AsTypeStr(@)]]]

(***************************************************************************)
(* The filter: merged["Completed"].astype(str).str.strip().str.lower()     *)
(* .eq("yes")                                                              *)
(***************************************************************************)
Yes == <<"y", "e", "s">>

IsCompletedYes(c) == LowerStr(Strip(Str(c))) = Yes

FilterYes(df) ==
    LET s == ColIdx(df, StatusCol)
    IN  [cols |-> df.cols,
         rows |-> SelectSeq(df.rows, LAMBDA row : IsCompletedYes(row[s]))]

(***************************************************************************)
(* Guards of the script.                                                   *)
(***************************************************************************)
\* line 77
BothLoaded(d1, e1, d2, e2) == d1 # None /\ d2 # None /\ e1 = None /\ e2 = None

\* fault variant: "or" for "and" at line 87
ColumnsOkEither(e1, e2) == e1 = None \/ e2 = None

\* line 87
ColumnsOk(e1, e2) == e1 = None /\ e2 = None

\* fault variant: the download offered without looking at the result
ExportAlways(result) == TRUE

\* line 120
ExportGuard(result) == ~df_empty(result)

(***************************************************************************)
(* What the page shows.                                                    *)
(***************************************************************************)
StError(msg) == [kind |-> "error", msg |-> msg]
StInfo(text) == [kind |-> "info", msg |-> Msg("", text, "", <<>>)]
StException(name) == [kind |-> "exception", msg |-> Msg("", name, "", <<>>)]

\* fault variant: "elif" for the second "if" at line 73
LoadErrorsFirstOnly(e1, e2) ==
    IF e1 # None THEN <<StError(Msg("File 1 (Aloha)", e1.text, e1.cause, <<>>))>>
    ELSE IF e2 # None THEN <<StError(Msg("File 2 (Unbilled)", e2.text, e2.cause, <<>>))>>
    ELSE <<>>

\* lines 71-74
LoadErrors(e1, e2) ==
    (IF e1 # None THEN <<StError(Msg("File 1 (Aloha)", e1.text, e1.cause, <<>>))>> ELSE <<>>)
    \o (IF e2 # None THEN <<StError(Msg("File 2 (Unbilled)", e2.text, e2.cause, <<>>))>> ELSE <<>>)

\* lines 82-85
ColumnErrors(e1, e2) ==
    (IF e1 # None THEN <<StError(e1)>> ELSE <<>>)
    \o (IF e2 # None THEN <<StError(e2)>> ELSE <<>>)

Download(result) ==
    [kind |-> "download",
     file_name |-> "matched_sessions_completed_yes.xlsx",
     sheet_name |-> "Matched_Completed_Yes",
     data |-> result]

(***************************************************************************)
(* The uploads a run may be given.                                         *)
(***************************************************************************)
NameCsv == <<"a", ".", "c", "s", "v">>
NameCsvUpper == <<"A", ".", "C", "S", "V">>
NameXlsx == <<"b", ".", "x", "l", "s", "x">>
NameXlsMixed == <<"b", ".", "X", "l", "S">>
NameTxt == <<"c", ".", "t", "x", "t">>
NameNoDot == <<"c", "s", "v">>
NameCsvBak == <<"a", ".", "c", "s", "v", ".", "b">>

Names == {NameCsv, NameCsvUpper, NameXlsx, NameXlsMixed, NameTxt, NameNoDot, NameCsvBak}

NameX == <<"X">>
NameAmount == <<"Amount">>

HeadersA ==
    { <<KeyCol, StatusCol>>, <<StatusCol, KeyCol>>, <<KeyCol>>, <<StatusCol>>,
      <<NameX>>, <<KeyCol, StatusCol, NameX>>,
      <<KeyCol, StatusCol, NameX, NameX \o SuffixAloha>>,
      <<KeyCol, NameX \o SuffixUnbilled, StatusCol, NameX>> }

HeadersB ==
    { <<KeyCol>>, <<NameX>>, <<StatusCol>>, <<KeyCol, NameX>>, <<NameX, KeyCol>>,
      <<KeyCol, StatusCol>>, <<KeyCol, StatusCol, NameX>>,
      <<KeyCol, NameX, NameX \o SuffixAloha>>,
      <<KeyCol, NameX \o SuffixUnbilled, NameX>> }

TextYes == <<"Y", "e", "s">>
TextYesPadded == <<" ", "y", "e", "s", " ">>
TextYesUpper == <<"Y", "E", "S">>
TextYesTab == <<"y", "E", "s", "\t">>
TextNo == <<"N", "o">>
TextBlank == <<>>
TextYess == <<"y", "e", "s", "s">>
TextYesInner == <<"y", " ", "e", "s">>

\* values of a Completed column: text, or NaN where the cell is blank
StatusValues ==
    { StrCell(TextYes), StrCell(TextYesPadded), StrCell(TextYesUpper),
      StrCell(TextYesTab), StrCell(TextNo), StrCell(TextBlank), StrCell(TextYess),
      StrCell(TextYesInner), NaN }

Text123 == <<"1", "2", "3">>
TextA7 == <<"A", "7">>

\* A parsed column has one dtype: int64 (all whole numbers), float64 (numbers
\* and blanks, every number stored as a float) or object (text and blanks).
IntKeys == {IntCell(7), IntCell(123)}
FloatKeys == {FloatCell(123), NaN}
ObjKeys == {StrCell(Text123), StrCell(TextA7), NaN}

KeyColumns(n) ==
    [1..n -> IntKeys] \cup [1..n -> FloatKeys]
    \cup {c \in [1..n -> ObjKeys] : \E i \in 1..n : c[i].t = "str"}

\* a table with the given header, key column and Completed column; any other
\* column holds the row number
MkTable(cols, keys, status) ==
    [cols |-> cols,
     rows |-> [i \in 1..Len(keys) |->
                 [j \in 1..Len(cols) |->
                    IF cols[j] = KeyCol THEN keys[i]
                    ELSE IF cols[j] = StatusCol THEN status[i]
                    ELSE IntCell(i)]]]

StatusByRow(n) == [i \in 1..n |-> IF i % 2 = 1 THEN StrCell(TextYes) ELSE StrCell(TextNo)]

CsvFile(table) == [name |-> NameCsv, format |-> "csv", table |-> table]
XlsxFile(table) == [name |-> NameXlsx, format |-> "excel", table |-> table]

ZeroTable == [cols |-> <<>>, rows |-> <<>>]
HeaderOnly == [cols |-> <<KeyCol, StatusCol>>, rows |-> <<>>]
OneRow == MkTable(<<KeyCol, StatusCol>>, <<IntCell(7)>>, <<StrCell(TextYes)>>)

\* every name with every kind of content, or no upload at all
LoadFiles ==
    {None}
    \cup {[name |-> n, format |-> f, table |-> t] :
            n \in Names, f \in {"csv", "excel"}, t \in {ZeroTable, HeaderOnly, OneRow}}
    \cup {[name |-> n, format |-> "garbage", table |-> ZeroTable] : n \in Names}

LoadInputs == LoadFiles \X LoadFiles

\* every header of A against every header of B
SchemaInputs ==
    { <<CsvFile(MkTable(ha, <<IntCell(7), IntCell(123)>>, StatusByRow(2))),
        XlsxFile(MkTable(hb, <<IntCell(7), IntCell(7)>>, <<StrCell(TextNo), StrCell(TextYes)>>))>> :
      ha \in HeadersA, hb \in HeadersB }

\* every key column of A against every key column of B
KeyInputs ==
    { <<CsvFile(MkTable(<<KeyCol, StatusCol>>, ka, StatusByRow(Len(ka)))),
        CsvFile(MkTable(<<KeyCol, NameAmount>>, kb, StatusByRow(Len(kb))))>> :
      ka \in UNION {KeyColumns(n) : n \in 1..MaxRows},
      kb \in UNION {KeyColumns(n) : n \in 1..MaxRows} }

\* every Completed column of A
StatusInputs ==
    { <<CsvFile(MkTable(<<KeyCol, StatusCol>>, [i \in 1..Len(st) |-> IntCell(7)], st)),
        XlsxFile(MkTable(<<KeyCol>>, <<StrCell(<<"7">>)>>, <<NaN>>))>> :
      st \in UNION {[1..n -> StatusValues] : n \in 1..MaxRows} }

Inputs == LoadInputs \cup SchemaInputs \cup KeyInputs \cup StatusInputs

(***************************************************************************)
(* The script, top to bottom.                                              *)
(***************************************************************************)
Init ==
    /\ \E in \in Inputs : file1 = in[1] /\ file2 = in[2]
    /\ df1 = None /\ err1 = None
    /\ df2 = None /\ err2 = None
    /\ err_cols1 = None /\ err_cols2 = None
    /\ merged = None
    /\ matched_completed_yes = None
    /\ ui = <<>>
    /\ pc = "start"

\* lines 63-69: each uploaded file is read
Load ==
    /\ pc = "start"
    /\ LET r1 == IF file1 # None THEN read_table(file1) ELSE [df |-> None, err |-> None]
           r2 == IF file2 # None THEN read_table(file2) ELSE [df |-> None, err |-> None]
       IN  /\ df1' = r1.df /\ err1' = r1.err
           /\ df2' = r2.df /\ err2' = r2.err
    /\ pc' = "loaded"
    /\ UNCHANGED <<file1, file2, err_cols1, err_cols2, merged, matched_completed_yes, ui>>

\* lines 71-74: load errors are shown
Report ==
    /\ pc = "loaded"
    /\ ui' = ui \o LoadErrors(err1, err2)
    /\ pc' = "reported"
    /\ UNCHANGED <<file1, file2, df1, err1, df2, err2, err_cols1, err_cols2,
                   merged, matched_completed_yes>>

\* lines 77, 138-139: not both tables are there
Prompt ==
    /\ pc = "reported"
    /\ ~BothLoaded(df1, err1, df2, err2)
    /\ ui' = Append(ui, StInfo("Please upload both files to start."))
    /\ pc' = "done"
    /\ UNCHANGED <<file1, file2, df1, err1, df2, err2, err_cols1, err_cols2,
                   merged, matched_completed_yes>>

\* lines 77-87: required columns are validated and what is missing is shown
Validate ==
    /\ pc = "reported"
    /\ BothLoaded(df1, err1, df2, err2)
    /\ err_cols1' = validate_columns(df1, Required1, Label1)
    /\ err_cols2' = validate_columns(df2, Required2, Label2)
    /\ ui' = ui \o ColumnErrors(err_cols1', err_cols2')
    /\ pc' = IF ColumnsOk(err_cols1', err_cols2') THEN "validated" ELSE "done"
    /\ UNCHANGED <<file1, file2, df1, err1, df2, err2, merged, matched_completed_yes>>

\* lines 89-90: the key column of both tables becomes text, in place.
\* df["Appointment ID"] on a table without that column raises KeyError.
Normalize ==
    /\ pc = "validated"
    /\ IF HasCol(df1, KeyCol) /\ HasCol(df2, KeyCol)
       THEN /\ df1' = NormalizeKey(df1)
            /\ df2' = NormalizeKey(df2)
            /\ pc' = "normalized"
            /\ ui' = ui
       ELSE /\ UNCHANGED <<df1, df2>>
            /\ pc' = "crashed"
            /\ ui' = Append(ui, StException("KeyError"))
    /\ UNCHANGED <<file1, file2, err1, err2, err_cols1, err_cols2,
                   merged, matched_completed_yes>>

\* lines 93-99: the inner join
Merge ==
    /\ pc = "normalized"
    /\ merged' = pd_merge(df1, df2)
    /\ pc' = "merged"
    /\ UNCHANGED <<file1, file2, df1, err1, df2, err2, err_cols1, err_cols2,
                   matched_completed_yes, ui>>

\* lines 93-99 under pandas >= 2.0: a suffix that duplicates a label of its
\* own side raises MergeError, which nothing catches
MergeError ==
    /\ pc = "normalized"
    /\ SuffixClash(df1, df2)
    /\ pc' = "crashed"
    /\ ui' = Append(ui, StException("MergeError"))
    /\ UNCHANGED <<file1, file2, df1, err1, df2, err2, err_cols1, err_cols2,
                   merged, matched_completed_yes>>

\* lines 102-103
MissingCompleted ==
    /\ pc = "merged"
    /\ ~HasCol(merged, StatusCol)
    /\ ui' = Append(ui, StError(Msg("",
              "Merged result does not contain 'Completed' column from Aloha file.", "", <<>>)))
    /\ pc' = "done"
    /\ UNCHANGED <<file1, file2, df1, err1, df2, err2, err_cols1, err_cols2,
                   merged, matched_completed_yes>>

PreviewRows == 200

df_head(df, n) == [df EXCEPT !.rows = SubSeq(df.rows, 1, IF Len(df.rows) < n THEN Len(df.rows) ELSE n)]

\* lines 104-117: the filter, the two counts and the preview
Filter ==
    /\ pc = "merged"
    /\ HasCol(merged, StatusCol)
    /\ matched_completed_yes' = FilterYes(merged)
    /\ ui' = ui \o << [kind |-> "write", n |-> Len(merged.rows)],
                      [kind |-> "write", n |-> Len(matched_completed_yes'.rows)],
                      [kind |-> "dataframe", data |-> df_head(matched_completed_yes', PreviewRows)] >>
    /\ pc' = "filtered"
    /\ UNCHANGED <<file1, file2, df1, err1, df2, err2, err_cols1, err_cols2, merged>>

\* lines 120-135: the download is offered
Export ==
    /\ pc = "filtered"
    /\ ExportGuard(matched_completed_yes)
    /\ ui' = Append(ui, Download(matched_completed_yes))
    /\ pc' = "done"
    /\ UNCHANGED <<file1, file2, df1, err1, df2, err2, err_cols1, err_cols2,
                   merged, matched_completed_yes>>

\* lines 136-137
NoRows ==
    /\ pc = "filtered"
    /\ ~ExportGuard(matched_completed_yes)
    /\ ui' = Append(ui, StInfo("No rows found where Completed = 'Yes' after inner join."))
    /\ pc' = "done"
    /\ UNCHANGED <<file1, file2, df1, err1, df2, err2, err_cols1, err_cols2,
                   merged, matched_completed_yes>>

Next ==
    \/ Load
    \/ Report
    \/ Prompt
    \/ Validate
    \/ Normalize
    \/ Merge
    \/ MergeError
    \/ MissingCompleted
    \/ Filter
    \/ Export
    \/ NoRows

Spec == Init /\ [][Next]_vars

(***************************************************************************)
(* Properties.                                                             *)
(***************************************************************************)
Ended == pc \in {"done", "crashed"}

Errors == SelectSeq(ui, LAMBDA e : e.kind = "error")

DownloadOffered == \E i \in 1..Len(ui) : ui[i].kind = "download"

\* both files were read into a table and neither read reported an error
C1_BothLoaded == df1 # None /\ df2 # None /\ err1 = None /\ err2 = None

\* every required column is a column of its table
C1_BothValid ==
    /\ HasCol(df1, KeyCol) /\ HasCol(df1, StatusCol)
    /\ HasCol(df2, KeyCol)

\* C1: when the run has ended, the download of
\* matched_sessions_completed_yes.xlsx is on the page if and only if both
\* files loaded without error, both passed column validation, the joined
\* table has the status column and the filtered table has a row; a run that
\* showed an error, or whose filtered table is empty, offers no download, and
\* no download is on the page before the run has ended.
C1_ExportIffCleanNonEmpty ==
    /\ DownloadOffered => pc = "done"
    /\ Ended =>
         /\ DownloadOffered <=>
              /\ C1_BothLoaded
              /\ C1_BothValid
              /\ merged # None /\ HasCol(merged, StatusCol)
              /\ matched_completed_yes # None /\ Len(matched_completed_yes.rows) > 0
         /\ Errors # <<>> => ~DownloadOffered
         /\ (matched_completed_yes # None /\ Len(matched_completed_yes.rows) = 0)
              => ~DownloadOffered
         /\ \A i \in 1..Len(ui) :
              ui[i].kind = "download" =>
                /\ ui[i].data = matched_completed_yes
                /\ ui[i].file_name = "matched_sessions_completed_yes.xlsx"

\* C1 witness: a run that ended with the download on the page
C1_Witness == pc = "done" /\ DownloadOffered /\ Len(matched_completed_yes.rows) > 0

\* a required column is absent from one of the two loaded tables
C2_ColumnMissing ==
    /\ file1 # None /\ file2 # None
    /\ C1_BothLoaded
    /\ \/ ~HasCol(file1.table, KeyCol)
       \/ ~HasCol(file1.table, StatusCol)
       \/ ~HasCol(file2.table, KeyCol)

\* C2: once validation has run on two loaded tables of which one lacks a
\* required column, the run is over with a missing-column error on the page,
\* the key normalisation and the join have not run (the script is at none of
\* their positions and there is no joined or filtered table), and both
\* tables are as they were loaded.
C2_ValidationBeforeJoin ==
    (pc \notin {"start", "loaded", "reported"} /\ C2_ColumnMissing) =>
        /\ pc = "done"
        /\ \E i \in 1..Len(ui) : ui[i].kind = "error" /\ ui[i].msg.missing # <<>>
        /\ merged = None
        /\ matched_completed_yes = None
        /\ df1 = file1.table
        /\ df2 = file2.table

\* C2 witness: table A has the key but no Completed column, and its key
\* column holds numbers, which normalisation would have changed
C2_Witness ==
    /\ pc = "done"
    /\ C2_ColumnMissing
    /\ HasCol(df1, KeyCol) /\ ~HasCol(df1, StatusCol) /\ HasCol(df2, KeyCol)
    /\ df1.rows[1][ColIdx(df1, KeyCol)].t = "int"
    /\ err_cols1.missing = <<StatusCol>>

C3_Keys(df) == {df.rows[i][ColIdx(df, KeyCol)] : i \in 1..Len(df.rows)}

C3_Count(df, k) == Cardinality({i \in 1..Len(df.rows) : df.rows[i][ColIdx(df, KeyCol)] = k})

RECURSIVE C3_SumOfProducts(_)
C3_SumOfProducts(ks) ==
    IF ks = {} THEN 0
    ELSE LET k == CHOOSE x \in ks : TRUE
         IN  C3_Count(df1, k) * C3_Count(df2, k) + C3_SumOfProducts(ks \ {k})

\* C3: the joined table has as many rows as the sum, over the key values
\* (as text) found in both tables, of the number of rows of A with that key
\* times the number of rows of B with it; none when no key is shared.
C3_JoinCardinality ==
    (pc \in {"merged", "filtered", "done"} /\ merged # None) =>
        /\ Len(merged.rows) = C3_SumOfProducts(C3_Keys(df1) \cap C3_Keys(df2))
        /\ (C3_Keys(df1) \cap C3_Keys(df2) = {}) => merged.rows = <<>>

\* C3 witness: a key held by two rows of A and two rows of B gives four rows
C3_Witness ==
    /\ pc = "merged"
    /\ Len(df1.rows) = 2 /\ Len(df2.rows) = 2
    /\ Len(merged.rows) = 4

\* the identifier a key cell denotes: the number, however it is stored, or
\* the text; a blank denotes none
C4_Identifier(c) == IF c.t \in {"int", "float"} THEN Digits(c.n) ELSE c.s

C4_Joined(i, j) ==
    \E q \in 1..Len(merged.rows) :
        merged.rows[q] = df1.rows[i] \o RemoveAt(df2.rows[j], ColIdx(df2, KeyCol))

\* C4: a row of A and a row of B whose keys denote the same identifier are
\* joined, whether the key is stored as an integer, a float or text.
C4_FormatInsensitiveKeys ==
    pc = "merged" =>
        \A i \in 1..Len(df1.rows), j \in 1..Len(df2.rows) :
            LET a == file1.table.rows[i][ColIdx(df1, KeyCol)]
                b == file2.table.rows[j][ColIdx(df2, KeyCol)]
            IN  (a.t # "nan" /\ b.t # "nan" /\ C4_Identifier(a) = C4_Identifier(b))
                    => C4_Joined(i, j)

\* text that is "yes" in any letter case between any leading and trailing
\* whitespace
C5_IsYesText(c) ==
    /\ c.t = "str"
    /\ \E a \in 0..Len(c.s) :
         /\ a + 3 <= Len(c.s)
         /\ \A i \in 1..a : c.s[i] \in Whitespace
         /\ c.s[a + 1] \in {"y", "Y"}
         /\ c.s[a + 2] \in {"e", "E"}
         /\ c.s[a + 3] \in {"s", "S"}
         /\ \A i \in (a + 4)..Len(c.s) : c.s[i] \in Whitespace

C5_Status(row) == row[ColIdx(merged, StatusCol)]

\* C5: the filtered table has the joined table's columns and exactly its rows
\* whose Completed value is "yes" once trimmed and lower-cased, in the joined
\* order and unaltered; "Yes", " yes " and "YES" are kept, "No", the empty
\* text, a blank cell and "yess" are not.
C5_FilterExactlyYes ==
    (pc \in {"filtered", "done"} /\ matched_completed_yes # None) =>
        /\ matched_completed_yes.cols = merged.cols
        /\ matched_completed_yes.rows =
             SelectSeq(merged.rows, LAMBDA row : C5_IsYesText(C5_Status(row)))
        /\ \A q \in 1..Len(merged.rows) :
             LET c == C5_Status(merged.rows[q])
                 kept == \E m \in 1..Len(matched_completed_yes.rows) :
                            matched_completed_yes.rows[m] = merged.rows[q]
             IN  /\ c \in {StrCell(TextYes), StrCell(TextYesPadded), StrCell(TextYesUpper)}
                      => kept
                 /\ c \in {StrCell(TextNo), StrCell(TextBlank), StrCell(TextYess), NaN}
                      => ~kept

\* C5 witness: of two joined rows the filter kept the one whose Completed is
\* " yes " and dropped the other
C5_Witness ==
    /\ pc = "filtered"
    /\ Len(merged.rows) = 2
    /\ Len(matched_completed_yes.rows) = 1
    /\ C5_Status(matched_completed_yes.rows[1]) = StrCell(TextYesPadded)

\* C6: the joined table of two validated tables always has the Completed
\* column, so the filter is always reached.
C6_StatusColumnSurvivesJoin ==
    pc = "merged" => HasCol(merged, StatusCol)

\* the column names the joined table is to have: A's, then B's without the
\* key, a name of both sides suffixed on each side
C7_Expected ==
    LET shared == (Range(file1.table.cols) \cap Range(file2.table.cols)) \ {KeyCol}
        a == file1.table.cols
        b == SelectSeq(file2.table.cols, LAMBDA c : c # KeyCol)
    IN  [i \in 1..Len(a) |-> IF a[i] \in shared THEN a[i] \o <<"_aloha">> ELSE a[i]]
        \o [i \in 1..Len(b) |-> IF b[i] \in shared THEN b[i] \o <<"_unbilled">> ELSE b[i]]

\* C7: the joined table has every column of A and of B, the key once, shared
\* names suffixed, and no column name twice.
C7_ColumnsKeptAndUnique ==
    pc = "merged" =>
        /\ merged.cols = C7_Expected
        /\ IsUnique(merged.cols)

\* C8: validate_columns reports exactly the required names that are not
\* columns of the table, every one of them, in the order required; it reports
\* nothing exactly when none is absent; the table is left as it was.
C8_ValidateColumns ==
    (pc \notin {"start", "loaded", "reported"} /\ C1_BothLoaded) =>
        /\ err_cols1 = None <=> (HasCol(file1.table, KeyCol) /\ HasCol(file1.table, StatusCol))
        /\ err_cols2 = None <=> HasCol(file2.table, KeyCol)
        /\ err_cols1 # None =>
             /\ err_cols1.label = "File 1 (Aloha)"
             /\ err_cols1.missing =
                  (IF HasCol(file1.table, KeyCol) THEN <<>> ELSE <<KeyCol>>)
                  \o (IF HasCol(file1.table, StatusCol) THEN <<>> ELSE <<StatusCol>>)
        /\ err_cols2 # None =>
             /\ err_cols2.label = "File 2 (Unbilled)"
             /\ err_cols2.missing = <<KeyCol>>
        /\ pc \in {"validated", "done"} /\ ~C1_BothValid =>
             df1 = file1.table /\ df2 = file2.table
        /\ pc = "validated" => df1 = file1.table /\ df2 = file2.table

\* C8 witness: a table without either required column, both names reported
C8_Witness ==
    /\ pc = "done"
    /\ err_cols1 # None
    /\ err_cols1.missing = <<KeyCol, StatusCol>>

C9_Supported(name) == name \in {NameCsv, NameCsvUpper, NameXlsx, NameXlsMixed}

C9_Parse(file) ==
    IF file.name \in {NameCsv, NameCsvUpper} THEN pd_read_csv(file) ELSE pd_read_excel(file)

C9_Classified(file, df, err) ==
    /\ (df = None) # (err = None)
    /\ IF ~C9_Supported(file.name)
       THEN err # None /\ err.text = "Unsupported file type. Please upload CSV or Excel."
            /\ err.cause = ""
       ELSE IF ~C9_Parse(file).ok
       THEN err # None /\ err.text = "Error reading file" /\ err.cause = C9_Parse(file).cause
            /\ err.cause # ""
       ELSE IF Len(file.table.rows) = 0
       THEN err # None /\ err.text = "File appears to be empty."
       ELSE df = file.table /\ Len(df.rows) >= 1

\* C9: for an uploaded file read_table gives a table or an error, one and
\* only one: UnsupportedFormat for a name not ending in .csv, .xlsx or .xls
\* in any letter case, else ParseError with the cause when parsing fails,
\* else EmptyTable when no data row was parsed, else the table, which has a
\* row.
C9_ReadTable ==
    pc = "loaded" =>
        /\ file1 # None => C9_Classified(file1, df1, err1)
        /\ file2 # None => C9_Classified(file2, df2, err2)

\* C9 witness: a header-only CSV was read and reported empty
C9_Witness ==
    /\ pc = "loaded"
    /\ file1 # None
    /\ file1.name = NameCsvUpper /\ file1.format = "csv" /\ file1.table = HeaderOnly
    /\ err1 # None /\ err1.text = "File appears to be empty."

C10_Shown(label, text, missing) ==
    \E i \in 1..Len(ui) :
        /\ ui[i].kind = "error"
        /\ ui[i].msg.label = label
        /\ ui[i].msg.text = text
        /\ ui[i].msg.missing = missing

\* C10: once load errors have been shown, every file that failed to load has
\* its error on the page under its own label, whether or not the other file
\* failed too; once validation has run, every table lacking a required column
\* has its missing-column error on the page under its own label.
C10_EveryFailureReported ==
    pc \notin {"start", "loaded"} =>
        /\ (file1 # None /\ df1 = None) =>
              err1 # None /\ C10_Shown("File 1 (Aloha)", err1.text, <<>>)
        /\ (file2 # None /\ df2 = None) =>
              err2 # None /\ C10_Shown("File 2 (Unbilled)", err2.text, <<>>)
        /\ (pc # "reported" /\ C1_BothLoaded) =>
              /\ ~(HasCol(df1, KeyCol) /\ HasCol(df1, StatusCol)) =>
                    \E m \in {<<KeyCol>>, <<StatusCol>>, <<KeyCol, StatusCol>>} :
                        C10_Shown("File 1 (Aloha)", "is missing required column(s)", m)
              /\ ~HasCol(df2, KeyCol) =>
                    C10_Shown("File 2 (Unbilled)", "is missing required column(s)", <<KeyCol>>)

\* C10 witness: both files failed to load, for different reasons, and the
\* page shows both errors
C10_Witness ==
    /\ pc = "done"
    /\ err1 # None /\ err2 # None
    /\ err1.text # err2.text
    /\ Len(Errors) = 2

====
